---------------------------- MODULE Spec2Model ----------------------------
(***************************************************************************)
(* Model of eos::fitting::estimate_orthographic_camera                     *)
(* (include/eos/fitting/nonlinear_camera_estimation.hpp).                  *)
(*                                                                         *)
(* Each caller thread runs calls of the function; a call is a frame of     *)
(* locals (the arguments, aspect, parameters, cost_function, info and the  *)
(* returned value) and a position pc in the function body.  A failed       *)
(* assert aborts the whole process.  The Levenberg-Marquardt solver is an  *)
(* external library: it is modelled as an arbitrary but deterministic      *)
(* function of the cost function it is given and the vector it starts      *)
(* from, tabulated in lm as it is asked.                                   *)
(*                                                                         *)
(* Numbers.  A float or double is an extended rational <<n, d>>: d > 0 is  *)
(* the finite value n/d in lowest terms, <<1, 0>> and <<-1, 0>> are the    *)
(* infinities and <<0, 0>> is NaN, with the IEC 559 rules for products and *)
(* quotients.  Every number of the model is exactly representable in       *)
(* single precision (the invariant NumbersExact), so that products         *)
(* and narrowing conversions are exact on them; rounding is outside the    *)
(* model, and a narrowing of any other value is marked, not passed on.     *)
(***************************************************************************)
EXTENDS Integers, Sequences, FiniteSets, TLC

VARIABLES pc, image_points, model_points, width, height, aspect, parameters,
          cost_function, info, result, solves, lm, returned, calls

vars == <<pc, image_points, model_points, width, height, aspect, parameters,
          cost_function, info, result, solves, lm, returned, calls>>

(* ------------------------------ bounds -------------------------------- *)

\* Longest sequence of points a caller passes.
MaxLen == 7

\* Calls begun in one run of the process, over all threads.
MaxCalls == 2

\* The caller threads; "main" is the caller of a single-threaded program.
Threads == {"main", "worker"}

MainThread == "main"

\* The image sizes <<width, height>> the callers pass: two of aspect 2, one
\* of aspect -1/2 with a negative width, and two of height 0.
Sizes == {<<2, 1>>, <<4, 2>>, <<-2, 4>>, <<2, 0>>, <<0, 0>>}

(* --------------------------- program constants ------------------------ *)

\* assert(image_points.size() >= 6)
MinPoints == 6

\* int num_params = 6
num_params == 6

\* parameters[5] = 110.0
InitialFrustumScale == 110

(* ------------------------------ numbers ------------------------------- *)

Abs(i) == IF i < 0 THEN -i ELSE i

Sgn(i) == IF i < 0 THEN -1 ELSE IF i > 0 THEN 1 ELSE 0

RECURSIVE GCD(_, _)
GCD(a, b) == IF b = 0 THEN a ELSE GCD(b, a % b)

\* n/d in lowest terms with d >= 0; x/0 is an infinity, 0/0 is NaN.
Norm(n, d) ==
    IF d = 0 THEN <<Sgn(n), 0>>
    ELSE LET g == GCD(Abs(n), Abs(d))
         IN  <<(Sgn(d) * n) \div g, Abs(d) \div g>>

NaN == <<0, 0>>

\* An int converted to floating point.
FromInt(i) == <<i, 1>>

FMul(x, y) == Norm(x[1] * y[1], x[2] * y[2])

FDiv(x, y) == Norm(x[1] * y[2], x[2] * y[1])

\* Exactly representable in single precision, whose significand has 24
\* bits: an infinity, NaN, or m / 2^k with |m| < 2^24.
Representable(x) ==
    \/ x[2] = 0
    \/ /\ Abs(x[1]) < 2 ^ 24
       /\ \E k \in 0..24 : x[2] = 2 ^ k

\* static_cast<float>(double), and the narrowing of a double in a braced
\* initialiser: exact on a representable value; any other value would be
\* rounded, which is marked by the tag "rounded".
ToFloat(x) == IF Representable(x) THEN x ELSE <<x[1], x[2], "rounded">>


(* --------------------------- the data types --------------------------- *)

\* A default-constructed Eigen::VectorXd, and a local not yet declared.
Empty == <<>>

\* No value has been returned.
NoResult == [none |-> TRUE]

\* Eigen::LevenbergMarquardtSpace::Status, as far as the solver can end.
Statuses == {"ImproperInputParameters", "RelativeErrorTooSmall",
             "CosinusTooSmall", "TooManyFunctionEvaluation"}

\* Mutant of Frustum: l and r lack the aspect.
FrustumWithoutAspect(a, p) ==
    [l |-> ToFloat(FMul(FromInt(-1), p[6])),
     r |-> ToFloat(FMul(FromInt(1), p[6])),
     b |-> ToFloat(FMul(FromInt(-1), p[6])),
     t |-> ToFloat(FMul(FromInt(1), p[6]))]

\* struct Frustum { float l, r, b, t; }: the initialiser of camera_frustum.
\* a is aspect, p the parameter vector (slot k of the code is p[k + 1]).
Frustum(a, p) ==
    [l |-> ToFloat(FMul(FMul(FromInt(-1), a), p[6])),
     r |-> ToFloat(FMul(FMul(FromInt(1), a), p[6])),
     b |-> ToFloat(FMul(FromInt(-1), p[6])),
     t |-> ToFloat(FMul(FromInt(1), p[6]))]

\* Mutant of RenderingParameters: pitch and yaw read each other's slot.
RenderingParametersSwapped(p, camera_frustum) ==
    [r_x |-> ToFloat(p[2]), r_y |-> ToFloat(p[1]), r_z |-> ToFloat(p[3]),
     t_x |-> ToFloat(p[4]), t_y |-> ToFloat(p[5]),
     frustum |-> camera_frustum]

\* The returned RenderingParameters{...}.
RenderingParameters(p, camera_frustum) ==
    [r_x |-> ToFloat(p[1]), r_y |-> ToFloat(p[2]), r_z |-> ToFloat(p[3]),
     t_x |-> ToFloat(p[4]), t_y |-> ToFloat(p[5]),
     frustum |-> camera_frustum]

\* Mutant of Aspect: the division by height is missing.
AspectIsWidth(w, h) == ToFloat(FromInt(w))

\* const float aspect = static_cast<float>(width) / height
Aspect(w, h) == FDiv(ToFloat(FromInt(w)), FromInt(h))

\* Mutant of InitialParameters: the vector outlives the call (a static), so
\* that a later call starts from what an earlier solve left.
InitialParametersKept(t) ==
    IF returned = {}
    THEN [[i \in 1..num_params |-> FromInt(0)]
             EXCEPT ![6] = FromInt(InitialFrustumScale)]
    ELSE (CHOOSE r \in returned : TRUE).x

\* Mutant of InitialParameters: the scale is written to slot 4.
InitialParametersOffByOne(t) ==
    [[i \in 1..num_params |-> FromInt(0)]
        EXCEPT ![5] = FromInt(InitialFrustumScale)]

\* parameters.setConstant(num_params, 0.0); parameters[5] = 110.0
\* The vector is a local of the call of thread t, built anew.
InitialParameters(t) ==
    [[i \in 1..num_params |-> FromInt(0)]
        EXCEPT ![6] = FromInt(InitialFrustumScale)]

\* detail::OrthographicParameterProjection cost_function(image_points,
\* model_points, width, height): the residual model holds copies of the data.
CostFunction(ip, mp, w, h) == <<ip, mp, w, h>>

(* ------------------------- what callers pass -------------------------- *)

Lens == (MinPoints - 1)..MaxLen

\* std::vector<cv::Vec2f> of length n
ImagePoints(n) == [i \in 1..n |-> <<i, 2 * i>>]

\* std::vector<cv::Vec4f> of length n
ModelPoints(n) == [i \in 1..n |-> <<i, -i, 0, 1>>]

\* Every call a caller may make: <<number of image points, number of model
\* points, <<width, height>>>>.
AllInputs == Lens \X Lens \X Sizes

\* The calls of callers that keep the documented preconditions, on images of
\* aspect 2.
ValidInputs == {<<n, n, size>> : n \in MinPoints..MaxLen,
                                 size \in {<<2, 1>>, <<4, 2>>}}

\* The arguments of the call thread t is in.
Args(t) == <<image_points[t], model_points[t], width[t], height[t]>>

(* ------------------------ the external solver ------------------------- *)

Vec(a, b, c, d, e, f) == <<a, b, c, d, e, f>>

\* What lm.minimize may leave behind when started from x0: the status it
\* returns and the vector it leaves in its argument.  An improper input
\* leaves x0 untouched; the solver may converge (here to a negative scale),
\* stop at its iteration cap in a degenerate zero scale, or diverge.
SolverOutcomes(x0) ==
    { [info |-> "ImproperInputParameters", x |-> x0],
      [info |-> "RelativeErrorTooSmall",
       x |-> Vec(<<1, 2>>, FromInt(-2), FromInt(3), FromInt(-4), FromInt(5),
                 FromInt(-100))],
      [info |-> "TooManyFunctionEvaluation",
       x |-> Vec(<<1, 4>>, <<1, 4>>, <<1, 4>>, FromInt(8), FromInt(-8),
                 FromInt(0))],
      [info |-> "CosinusTooSmall",
       x |-> Vec(NaN, NaN, NaN, <<1, 0>>, <<-1, 0>>, <<1, 0>>)] }

\* The solver's table with the answer out to the question key added.
Tabulate(table, key, out) ==
    [k \in DOMAIN table \cup {key} |-> IF k = key THEN out ELSE table[k]]

(* ------------------------------- Init --------------------------------- *)

NoFrame(f) == [t \in Threads |-> f]

Init ==
    /\ pc = NoFrame("idle")
    /\ image_points = NoFrame(Empty)
    /\ model_points = NoFrame(Empty)
    /\ width = NoFrame(0)
    /\ height = NoFrame(0)
    /\ aspect = NoFrame(Empty)
    /\ parameters = NoFrame(Empty)
    /\ cost_function = NoFrame(Empty)
    /\ info = NoFrame("NotStarted")
    /\ result = NoFrame(NoResult)
    /\ solves = NoFrame(0)
    /\ lm = [k \in {} |-> 0]
    /\ returned = {}
    /\ calls = 0

\* No assert has failed: the process is alive.
Running == \A u \in Threads : pc[u] \notin {"aborted", "killed"}

(* ------------------------------ actions ------------------------------- *)

\* A caller enters estimate_orthographic_camera with arguments drawn from
\* Ins (the vectors are passed by value); the locals of the new frame do not
\* exist yet.
Call(t, Ins) ==
    /\ Running
    /\ pc[t] \in {"idle", "done"}
    /\ calls < MaxCalls
    /\ \E in \in Ins :
          /\ image_points' = [image_points EXCEPT ![t] = ImagePoints(in[1])]
          /\ model_points' = [model_points EXCEPT ![t] = ModelPoints(in[2])]
          /\ width' = [width EXCEPT ![t] = in[3][1]]
          /\ height' = [height EXCEPT ![t] = in[3][2]]
    /\ aspect' = [aspect EXCEPT ![t] = Empty]
    /\ parameters' = [parameters EXCEPT ![t] = Empty]
    /\ cost_function' = [cost_function EXCEPT ![t] = Empty]
    /\ info' = [info EXCEPT ![t] = "NotStarted"]
    /\ result' = [result EXCEPT ![t] = NoResult]
    /\ solves' = [solves EXCEPT ![t] = 0]
    /\ calls' = calls + 1
    /\ pc' = [pc EXCEPT ![t] = "L105"]
    /\ UNCHANGED <<lm, returned>>

\* A failed assert calls abort(): the process ends in the frame of thread t,
\* and nothing else of it is left (the other frames, what it had returned).
Abort(t) ==
    /\ pc' = [u \in Threads |-> IF u = t THEN "aborted" ELSE "killed"]
    /\ aspect' = [u \in Threads |-> IF u = t THEN aspect[u] ELSE Empty]
    /\ parameters' = [u \in Threads |-> IF u = t THEN parameters[u] ELSE Empty]
    /\ cost_function' =
          [u \in Threads |-> IF u = t THEN cost_function[u] ELSE Empty]
    /\ image_points' =
          [u \in Threads |-> IF u = t THEN image_points[u] ELSE Empty]
    /\ model_points' =
          [u \in Threads |-> IF u = t THEN model_points[u] ELSE Empty]
    /\ width' = [u \in Threads |-> IF u = t THEN width[u] ELSE 0]
    /\ height' = [u \in Threads |-> IF u = t THEN height[u] ELSE 0]
    /\ info' = [u \in Threads |-> IF u = t THEN info[u] ELSE "NotStarted"]
    /\ result' = [u \in Threads |-> IF u = t THEN result[u] ELSE NoResult]
    /\ solves' = [u \in Threads |-> IF u = t THEN solves[u] ELSE 0]
    /\ lm' = [k \in {} |-> 0]
    /\ returned' = {}
    /\ UNCHANGED calls

\* An assert whose condition holds: the call goes on at the line next.
Pass(t, next) ==
    /\ pc' = [pc EXCEPT ![t] = next]
    /\ UNCHANGED <<image_points, model_points, width, height, aspect,
                   parameters, cost_function, info, result, solves, lm,
                   returned, calls>>

\* Mutant of SizesAgree: <= for ==.
SizesAgreeAtMost(ip, mp) == Len(ip) <= Len(mp)

\* The condition of assert(image_points.size() == model_points.size()).
SizesAgree(ip, mp) == Len(ip) = Len(mp)

\* Mutant of EnoughPoints: > for >=.
EnoughPointsStrict(ip) == Len(ip) > MinPoints

\* The condition of assert(image_points.size() >= 6).
EnoughPoints(ip) == Len(ip) >= MinPoints

\* assert(image_points.size() == model_points.size())
AssertSizes(t) ==
    /\ Running
    /\ pc[t] = "L105"
    /\ IF SizesAgree(image_points[t], model_points[t])
       THEN Pass(t, "L106") ELSE Abort(t)

\* Mutant of AssertMin: the assert also wants a positive height.
AssertMinAndHeight(t) ==
    /\ Running
    /\ pc[t] = "L106"
    /\ IF EnoughPoints(image_points[t]) /\ height[t] > 0
       THEN Pass(t, "L108") ELSE Abort(t)

\* assert(image_points.size() >= 6)
AssertMin(t) ==
    /\ Running
    /\ pc[t] = "L106"
    /\ IF EnoughPoints(image_points[t]) THEN Pass(t, "L108") ELSE Abort(t)

\* Lines 108-121: aspect, the initial parameter vector, the cost function
\* and the solver object around it.
Setup(t) ==
    /\ Running
    /\ pc[t] = "L108"
    /\ aspect' = [aspect EXCEPT ![t] = Aspect(width[t], height[t])]
    /\ parameters' = [parameters EXCEPT ![t] = InitialParameters(t)]
    /\ cost_function' = [cost_function EXCEPT ![t] =
          CostFunction(image_points[t], model_points[t], width[t], height[t])]
    /\ pc' = [pc EXCEPT ![t] = "L122"]
    /\ UNCHANGED <<image_points, model_points, width, height, info, result,
                   solves, lm, returned, calls>>

\* auto info = lm.minimize(parameters): the solver overwrites parameters and
\* returns its status.  It is a function of the cost function and the start
\* vector: asked the same again, it answers the same.
Minimize(t) ==
    /\ Running
    /\ pc[t] = "L122"
    /\ LET key == <<cost_function[t], parameters[t]>>
       IN  \E out \in SolverOutcomes(parameters[t]) :
              /\ key \in DOMAIN lm => out = lm[key]
              /\ lm' = Tabulate(lm, key, out)
              /\ parameters' = [parameters EXCEPT ![t] = out.x]
              /\ info' = [info EXCEPT ![t] = out.info]
    /\ solves' = [solves EXCEPT ![t] = solves[t] + 1]
    /\ pc' = [pc EXCEPT ![t] = "L125"]
    /\ UNCHANGED <<image_points, model_points, width, height, aspect,
                   cost_function, result, returned, calls>>

\* Mutant of Return: a solve that did not converge is asserted against.
ReturnIfConverged(t) ==
    /\ Running
    /\ pc[t] = "L125"
    /\ IF info[t] = "RelativeErrorTooSmall"
       THEN LET camera_frustum == Frustum(aspect[t], parameters[t])
                value == RenderingParameters(parameters[t], camera_frustum)
            IN  /\ result' = [result EXCEPT ![t] = value]
                /\ returned' = returned \cup
                      {[args |-> Args(t), x |-> parameters[t],
                        value |-> value]}
                /\ pc' = [pc EXCEPT ![t] = "done"]
                /\ UNCHANGED <<image_points, model_points, width, height,
                               aspect, parameters, cost_function, info,
                               solves, lm, calls>>
       ELSE Abort(t)

\* Lines 125-126: the frustum and the returned value.  info is not read.
\* returned keeps, for every call that has returned, its arguments, the
\* vector the solver left and the value returned.
Return(t) ==
    /\ Running
    /\ pc[t] = "L125"
    /\ LET camera_frustum == Frustum(aspect[t], parameters[t])
           value == RenderingParameters(parameters[t], camera_frustum)
       IN  /\ result' = [result EXCEPT ![t] = value]
           /\ returned' = returned \cup
                 {[args |-> Args(t), x |-> parameters[t], value |-> value]}
    /\ pc' = [pc EXCEPT ![t] = "done"]
    /\ UNCHANGED <<image_points, model_points, width, height, aspect,
                   parameters, cost_function, info, solves, lm, calls>>

\* One step of the call thread t is in, or its next call.
Step(t, Ins) ==
    \/ Call(t, Ins)
    \/ AssertSizes(t)
    \/ AssertMin(t)
    \/ Setup(t)
    \/ Minimize(t)
    \/ Return(t)

\* A single-threaded program: one call after the other, with any arguments.
Next == Step(MainThread, AllInputs)

Spec == Init /\ [][Next]_vars

\* Callers on several threads, their calls interleaved line by line.
NextThreads == \E t \in Threads : Step(t, ValidInputs)

SpecThreads == Init /\ [][NextThreads]_vars

(* ------------------------ reading the state --------------------------- *)

\* Thread t is in a call, or in the frame its last call ended in.
Entered(t) == pc[t] \notin {"idle", "killed"}

\* Nothing of the body after the asserts has run in the frame of thread t.
Untouched(t) ==
    /\ aspect[t] = Empty
    /\ parameters[t] = Empty
    /\ cost_function[t] = Empty
    /\ info[t] = "NotStarted"
    /\ solves[t] = 0
    /\ result[t] = NoResult

\* -x
FNeg(x) == <<-x[1], x[2]>>

\* The vector [0, 0, 0, 0, 0, 110].
Guess == <<<<0, 1>>, <<0, 1>>, <<0, 1>>, <<0, 1>>, <<0, 1>>, <<110, 1>>>>

\* Every number the program holds is exact in single precision.
NumbersExact ==
    \A t \in Threads :
        /\ aspect[t] # Empty => Representable(aspect[t])
        /\ \A i \in 1..Len(parameters[t]) : Representable(parameters[t][i])
        /\ result[t] # NoResult =>
              /\ \A f \in {"r_x", "r_y", "r_z", "t_x", "t_y"} :
                    Len(result[t][f]) = 2
              /\ \A f \in {"l", "r", "b", "t"} :
                    Len(result[t].frustum[f]) = 2

(* ------------------------------ claims -------------------------------- *)

\* C1: a call whose image_points and model_points differ in length is
\* rejected whatever the two lengths are: it goes from the first assert to
\* abort and nowhere else, no residual model is built, the solver is not
\* invoked, and no call with such arguments has ever returned a value.
C1_LengthMismatchRejected ==
    /\ \A t \in Threads :
          (Entered(t) /\ Len(image_points[t]) # Len(model_points[t])) =>
             /\ pc[t] \in {"L105", "aborted"}
             /\ Untouched(t)
    /\ \A r \in returned : Len(r.args[1]) = Len(r.args[2])

\* C1 witness: a call with 6 image points and 7 model points has aborted.
C1_Witness ==
    \E t \in Threads :
        /\ pc[t] = "aborted"
        /\ Len(image_points[t]) = 6
        /\ Len(model_points[t]) = 7

\* C2: with equal lengths, fewer than 6 correspondences never get past the
\* asserts (no residual model, no solve, no result), and exactly 6 are never
\* aborted: past the asserts the residual model is built, and the call is
\* done with one solve behind it and a value returned.
C2_MinimumCountBoundary ==
    \A t \in Threads :
        (Entered(t) /\ Len(image_points[t]) = Len(model_points[t])) =>
           /\ Len(image_points[t]) < 6 =>
                 /\ pc[t] \in {"L105", "L106", "aborted"}
                 /\ Untouched(t)
           /\ Len(image_points[t]) = 6 =>
                 /\ pc[t] # "aborted"
                 /\ pc[t] \in {"L122", "L125", "done"} =>
                       cost_function[t] = Args(t)
                 /\ pc[t] = "done" =>
                       /\ solves[t] = 1
                       /\ result[t] # NoResult
                       /\ \E r \in returned :
                             r.args = Args(t) /\ r.value = result[t]

\* C2 witness: a call with exactly 6 correspondences has returned a value.
C2_Witness ==
    \E t \in Threads :
        /\ pc[t] = "done"
        /\ Len(image_points[t]) = 6
        /\ Len(model_points[t]) = 6
        /\ solves[t] = 1
        /\ result[t] # NoResult

C5_FieldsAreSlots ==
    \A t \in Threads :
        pc[t] = "done" =>
           LET key == <<cost_function[t], Guess>>
               p == parameters[t]
               v == result[t]
           IN  /\ key \in DOMAIN lm
               /\ p = lm[key].x
               /\ v.r_x = p[1]
               /\ v.r_y = p[2]
               /\ v.r_z = p[3]
               /\ v.t_x = p[4]
               /\ v.t_y = p[5]
               /\ v.frustum =
                     Frustum(Aspect(width[t], height[t]),
                             <<NaN, NaN, NaN, NaN, NaN, p[6]>>)

\* C5 witness: the solver left [1/2, -2, 3, -4, 5, -100], six different
\* values, and the call returned them field by field.
C5_Witness ==
    \E t \in Threads :
        /\ pc[t] = "done"
        /\ parameters[t] = <<<<1, 2>>, <<-2, 1>>, <<3, 1>>, <<-4, 1>>,
                             <<5, 1>>, <<-100, 1>>>>
        /\ result[t].r_x = <<1, 2>>
        /\ result[t].t_y = <<5, 1>>

\* C6: a call ends in abort only on a violated precondition and before any
\* solve, so never on a status of the solver; whatever status the solver
\* returned, the call ends with the value built from the vector it left.
C6_StatusNotInspected ==
    \A t \in Threads :
        /\ pc[t] = "aborted" =>
              /\ \/ Len(image_points[t]) # Len(model_points[t])
                 \/ Len(image_points[t]) < 6
              /\ Untouched(t)
        /\ pc[t] \in {"L125", "done"} => info[t] \in Statuses
        /\ pc[t] = "done" =>
              result[t] = RenderingParameters(parameters[t],
                             Frustum(aspect[t], parameters[t]))

\* C6 witness: the solver stopped at its iteration cap and the call returned
\* a value all the same.
C6_Witness ==
    \E t \in Threads :
        /\ pc[t] = "done"
        /\ info[t] = "TooManyFunctionEvaluation"
        /\ result[t] # NoResult

C8_FrustumScaleInvariant ==
    \A r1, r2 \in returned :
        r1.x[6] = r2.x[6] =>
           /\ r1.value.frustum.b = r2.value.frustum.b
           /\ r1.value.frustum.t = r2.value.frustum.t
           /\ ( /\ r1.args[4] # 0
                /\ r2.args[4] # 0
                /\ r1.args[3] * r2.args[4] = r2.args[3] * r1.args[4] ) =>
                 r1.value.frustum = r2.value.frustum

\* C8 witness: calls on a 2 x 1 and on a 4 x 2 image have returned with the
\* same final scale 110 and the same frustum, l = -220.
C8_Witness ==
    \E r1, r2 \in returned :
        /\ r1.args[3] = 2 /\ r1.args[4] = 1
        /\ r2.args[3] = 4 /\ r2.args[4] = 2
        /\ r1.x[6] = <<110, 1>>
        /\ r2.x[6] = <<110, 1>>
        /\ r1.value.frustum.l = <<-220, 1>>
        /\ r2.value.frustum.l = <<-220, 1>>

\* C9: the solver is invoked once in every call past the asserts and not at
\* all in any other, and when it is invoked the parameter vector is
\* [0, 0, 0, 0, 0, 110].
C9_InitialGuess ==
    \A t \in Threads :
        /\ pc[t] = "L122" =>
              /\ parameters[t] = Guess
              /\ Len(parameters[t]) = 6
              /\ solves[t] = 0
        /\ pc[t] \in {"L125", "done"} =>
              /\ solves[t] = 1
              /\ <<cost_function[t], Guess>> \in DOMAIN lm
        /\ pc[t] \in {"L105", "L106", "L108", "aborted"} => solves[t] = 0

\* C9 witness: the solver has run once in a call with 7 correspondences and
\* a 0 x 0 image.
C9_Witness ==
    \E t \in Threads :
        /\ pc[t] = "L125"
        /\ solves[t] = 1
        /\ Len(image_points[t]) = 7
        /\ width[t] = 0
        /\ height[t] = 0

\* C10: whether a call aborts depends on the two lengths alone.  With equal
\* lengths of 6 or more it is never aborted, whatever width and height are;
\* with height 0 its aspect is an infinity or NaN, and it returns, after one
\* solve, a frustum whose l and r are -aspect*s and aspect*s.
C10_SizeNotValidated ==
    \A t \in Threads :
        ( /\ Entered(t)
          /\ Len(image_points[t]) = Len(model_points[t])
          /\ Len(image_points[t]) >= 6 ) =>
             /\ pc[t] # "aborted"
             /\ (pc[t] \in {"L122", "L125", "done"} /\ height[t] = 0) =>
                   aspect[t] = <<Sgn(width[t]), 0>>
             /\ pc[t] = "done" =>
                   /\ solves[t] = 1
                   /\ result[t].frustum.l =
                         FNeg(FMul(aspect[t], parameters[t][6]))
                   /\ result[t].frustum.r = FMul(aspect[t], parameters[t][6])

\* C10 witness: a call on a 2 x 0 image has returned with the final scale
\* 110: aspect is +infinity, l is -infinity and r is +infinity.
C10_Witness ==
    \E t \in Threads :
        /\ pc[t] = "done"
        /\ width[t] = 2
        /\ height[t] = 0
        /\ aspect[t] = <<1, 0>>
        /\ parameters[t][6] = <<110, 1>>
        /\ result[t].frustum.l = <<-1, 0>>
        /\ result[t].frustum.r = <<1, 0>>

=============================================================================
